---- MODULE Spec2Model ----
(***************************************************************************)
(* The image transformation service of src/main.py: the validate_input     *)
(* dependency, the POST /transform handler transform_image with its        *)
(* try/except chain, process_image, and the log_requests middleware.       *)
(*                                                                         *)
(* JSON values of the request body are tagged records (absent key, null,   *)
(* integer, string).  Image payloads are named by what they decode to.     *)
(* Python exceptions are records carrying their class, and the class       *)
(* hierarchy that the except clauses consult is modelled explicitly.       *)
(* The log is kept as the set of entries written so far (it only grows).   *)
(***************************************************************************)
EXTENDS Integers, Sequences, FiniteSets, TLC

VARIABLES req, pc, trace, image_data, image, transformed_image, response, log

vars == <<req, pc, trace, image_data, image, transformed_image, response, log>>

\* Number of request slots served by the one process.
NumReqs == 2

Reqs == 1..NumReqs

-----------------------------------------------------------------------------
(* JSON values of the request mapping *)

Absent == [t |-> "absent", n |-> 0, s |-> ""]
Null == [t |-> "null", n |-> 0, s |-> ""]
Num(k) == [t |-> "int", n |-> k, s |-> ""]
Str(x) == [t |-> "str", n |-> 0, s |-> x]

\* `field in data`
Has(data, field) == data[field].t # "absent"

\* data.get(field) is None
GetIsNone(data, field) == data[field].t \in {"absent", "null"}

\* data.get(field, 0)
GetOrZero(data, field) == IF data[field].t = "absent" THEN Num(0) ELSE data[field]

\* Payloads of the image field.  A string names the bytes it encodes:
\* BAD_PADDING is not decodable base64; TEXT, EMPTY and UNKNOWN_FORMAT decode
\* to bytes that are no raster image; RGB, RGBA, P and L decode to an image of
\* that pixel mode; TRUNCATED decodes to an image whose header parses and
\* whose pixel data is cut short.
ImageVals ==
    {Absent, Null, Str("BAD_PADDING"), Str("TEXT"), Str("EMPTY"),
     Str("UNKNOWN_FORMAT"), Str("RGB"), Str("RGBA"), Str("P"), Str("L"),
     Str("TRUNCATED")}

TypeVals ==
    {Absent, Null, Str("grayscale"), Str("rotate"), Str("resize"), Str("blur")}

AngleVals == {Absent, Null, Num(45), Str("x")}

DimVals == {Absent, Null, Num(-1), Num(0), Num(5), Str("x")}

Fields == {"image", "transformation_type", "rotation_angle", "width", "height"}

AllRequests ==
    [image : ImageVals, transformation_type : TypeVals,
     rotation_angle : AngleVals, width : DimVals, height : DimVals]

NoRequest ==
    [image |-> Absent, transformation_type |-> Absent,
     rotation_angle |-> Absent, width |-> Absent, height |-> Absent]

\* The requests served side by side in the concurrent specification.
ConcRequests ==
    {[NoRequest EXCEPT !.transformation_type = Str("grayscale")],
     [NoRequest EXCEPT !.image = Str("BAD_PADDING"),
                       !.transformation_type = Str("grayscale")],
     [NoRequest EXCEPT !.image = Str("TEXT"),
                       !.transformation_type = Str("blur")],
     [NoRequest EXCEPT !.image = Str("RGB"),
                       !.transformation_type = Str("grayscale")],
     [NoRequest EXCEPT !.image = Str("RGBA"),
                       !.transformation_type = Str("rotate"),
                       !.rotation_angle = Num(45)],
     [NoRequest EXCEPT !.image = Str("L"),
                       !.transformation_type = Str("resize"),
                       !.width = Num(5), !.height = Num(5)],
     [NoRequest EXCEPT !.image = Str("RGB"),
                       !.transformation_type = Str("resize"),
                       !.width = Num(0), !.height = Num(5)]}

-----------------------------------------------------------------------------
(* Responses *)

NoResponse ==
    [status |-> 0, message |-> "", about |-> "", missing |-> <<>>,
     correct_format |-> {}, body |-> ""]

Rejection(msg, missing, format) ==
    [status |-> 422, message |-> msg, about |-> "", missing |-> missing,
     correct_format |-> format, body |-> ""]

Failure(code, msg, about) ==
    [status |-> code, message |-> msg, about |-> about, missing |-> <<>>,
     correct_format |-> {}, body |-> ""]

Success(body) ==
    [status |-> 200, message |-> "", about |-> "", missing |-> <<>>,
     correct_format |-> {}, body |-> body]

-----------------------------------------------------------------------------
(* Python exceptions *)

NoExc == [cls |-> "", msg |-> ""]
Exc(c, m) == [cls |-> c, msg |-> m]

\* The base class of each exception class that can arise in the handler.
BaseOf(c) ==
    CASE c = "binascii.Error" -> "ValueError"
      [] c = "UnidentifiedImageError" -> "OSError"
      [] c = "ValueError" -> "Exception"
      [] c = "TypeError" -> "Exception"
      [] c = "OSError" -> "Exception"
      [] c = "HTTPException" -> "Exception"
      [] OTHER -> "BaseException"

RECURSIVE IsSubclass(_, _)
IsSubclass(c, d) ==
    IF c = d THEN TRUE
    ELSE IF c = "BaseException" THEN FALSE
    ELSE IsSubclass(BaseOf(c), d)

\* isinstance(e, d), which decides whether `except d` catches e
IsInstance(e, d) == IsSubclass(e.cls, d)

\* Handle with the generic clause tried before the ValueError clause.
Handle_generic_first(e) ==
    IF IsInstance(e, "UnidentifiedImageError")
    THEN [status |-> 400, message |-> "Invalid image provided", about |-> "",
          missing |-> <<>>, correct_format |-> {}, body |-> ""]
    ELSE [status |-> 500, message |-> "Internal server error", about |-> e.msg,
          missing |-> <<>>, correct_format |-> {}, body |-> ""]

\* Handle without the final `except Exception` clause: what the first two
\* clauses do not catch leaves the handler as it is.
Handle_no_generic(e) ==
    IF IsInstance(e, "UnidentifiedImageError")
    THEN [status |-> 400, message |-> "Invalid image provided", about |-> "",
          missing |-> <<>>, correct_format |-> {}, body |-> ""]
    ELSE IF IsInstance(e, "ValueError")
    THEN [status |-> 400, message |-> "Invalid transformation type or parameter",
          about |-> e.msg, missing |-> <<>>, correct_format |-> {}, body |-> ""]
    ELSE [status |-> 500, message |-> "unhandled", about |-> e.msg,
          missing |-> <<>>, correct_format |-> {}, body |-> ""]

\* except clauses of transform_image, tried in order on an exception raised
\* inside its try block.
Handle(e) ==
    IF IsInstance(e, "UnidentifiedImageError")
    THEN Failure(400, "Invalid image provided", "")
    ELSE IF IsInstance(e, "ValueError")
    THEN Failure(400, "Invalid transformation type or parameter", e.msg)
    ELSE Failure(500, "Internal server error", e.msg)

-----------------------------------------------------------------------------
(* validate_input *)

required_fields == <<"image", "transformation_type">>

\* missing_fields looking for the image key only.
missing_fields_image_only(data) ==
    LET absent(field) == data[field].t = "absent"
    IN SelectSeq(<<"image">>, absent)

missing_fields(data) ==
    LET absent(field) == ~Has(data, field)
    IN SelectSeq(required_fields, absent)

\* resize_incomplete with `and` between the two None tests.
resize_incomplete_and(data) ==
    /\ data.transformation_type = Str("resize")
    /\ (GetIsNone(data, "width") /\ GetIsNone(data, "height"))

resize_incomplete(data) ==
    /\ data.transformation_type = Str("resize")
    /\ (GetIsNone(data, "width") \/ GetIsNone(data, "height"))

rotate_incomplete(data) ==
    /\ data.transformation_type = Str("rotate")
    /\ GetIsNone(data, "rotation_angle")

\* The rejection validate_input raises, or NoResponse when it returns data.
validate_input(data) ==
    IF missing_fields(data) # <<>>
    THEN Rejection("Missing required fields", missing_fields(data), Fields)
    ELSE IF resize_incomplete(data)
    THEN Rejection("Width and height must be provided for resize transformation.",
                   <<>>, {"image", "transformation_type", "width", "height"})
    ELSE IF rotate_incomplete(data)
    THEN Rejection("Rotation angle must be provided for rotate transformation.",
                   <<>>, {"image", "transformation_type", "rotation_angle"})
    ELSE NoResponse

-----------------------------------------------------------------------------
(* The library calls of the handler, each returning its value or the        *)
(* exception it raises (exc = NoExc when it returns).                        *)

Unset == "<unset>"

\* base64.b64decode(request_data["image"])
b64decode(v) ==
    IF v.t # "str"
    THEN [exc |-> Exc("TypeError", "argument should be a bytes-like object or ASCII string"),
          bytes |-> Unset]
    ELSE IF v.s = "BAD_PADDING"
    THEN [exc |-> Exc("binascii.Error", "Incorrect padding"), bytes |-> Unset]
    ELSE [exc |-> NoExc,
          bytes |-> CASE v.s = "TEXT" -> "plain text"
                      [] v.s = "EMPTY" -> ""
                      [] v.s = "UNKNOWN_FORMAT" -> "bytes of no known image format"
                      [] v.s = "RGB" -> "png rgb"
                      [] v.s = "RGBA" -> "png rgba"
                      [] v.s = "P" -> "png palette"
                      [] v.s = "L" -> "jpeg gray"
                      [] v.s = "TRUNCATED" -> "png rgb cut short"
                      [] OTHER -> "plain text"]

NoImage == [mode |-> "", complete |-> FALSE]

\* Image.open(io.BytesIO(image_data)): reads the header only.
Image_open(bytes) ==
    CASE bytes = "png rgb" -> [exc |-> NoExc, img |-> [mode |-> "RGB", complete |-> TRUE]]
      [] bytes = "png rgba" -> [exc |-> NoExc, img |-> [mode |-> "RGBA", complete |-> TRUE]]
      [] bytes = "png palette" -> [exc |-> NoExc, img |-> [mode |-> "P", complete |-> TRUE]]
      [] bytes = "jpeg gray" -> [exc |-> NoExc, img |-> [mode |-> "L", complete |-> TRUE]]
      [] bytes = "png rgb cut short" ->
            [exc |-> NoExc, img |-> [mode |-> "RGB", complete |-> FALSE]]
      [] OTHER -> [exc |-> Exc("UnidentifiedImageError", "cannot identify image file"),
                   img |-> NoImage]

\* The pixel data is loaded by the first operation that needs it.
load(im) ==
    IF im.complete THEN NoExc ELSE Exc("OSError", "image file is truncated")

\* image.convert("L")
convert_L(im) ==
    IF load(im) # NoExc THEN [exc |-> load(im), img |-> NoImage]
    ELSE [exc |-> NoExc, img |-> [im EXCEPT !.mode = "L"]]

\* image.rotate(rotation_angle, expand=True)
rotate(im, angle) ==
    IF angle.t # "int"
    THEN [exc |-> Exc("TypeError", "unsupported operand type(s) for %"), img |-> NoImage]
    ELSE IF load(im) # NoExc THEN [exc |-> load(im), img |-> NoImage]
    ELSE [exc |-> NoExc, img |-> im]

\* image.resize((width, height))
resize(im, width, height) ==
    IF load(im) # NoExc THEN [exc |-> load(im), img |-> NoImage]
    ELSE [exc |-> NoExc, img |-> im]

\* NonPositive with `<` for `<=`.
NonPositive_strict(width, height) ==
    IF width.t # "int" THEN "raise"
    ELSE IF width.n < 0 THEN "true"
    ELSE IF height.t # "int" THEN "raise"
    ELSE IF height.n < 0 THEN "true"
    ELSE "false"

\* width <= 0 or height <= 0, as Python evaluates it: "raise" when the
\* comparison that is reached has a non-number on its left.
NonPositive(width, height) ==
    IF width.t # "int" THEN "raise"
    ELSE IF width.n <= 0 THEN "true"
    ELSE IF height.t # "int" THEN "raise"
    ELSE IF height.n <= 0 THEN "true"
    ELSE "false"

process_image(im, transformation_type, rotation_angle, width, height) ==
    IF transformation_type = Str("grayscale") THEN convert_L(im)
    ELSE IF transformation_type = Str("rotate") THEN rotate(im, rotation_angle)
    ELSE IF transformation_type = Str("resize")
    THEN CASE NonPositive(width, height) = "true" ->
                [exc |-> Exc("ValueError",
                             "Width and height must be positive integers for resizing."),
                 img |-> NoImage]
           [] NonPositive(width, height) = "raise" ->
                [exc |-> Exc("TypeError", "'<=' not supported between instances"),
                 img |-> NoImage]
           [] OTHER -> resize(im, width, height)
    ELSE [exc |-> Exc("ValueError", "Invalid transformation type"), img |-> NoImage]

\* Pixel modes the JPEG writer accepts.
JpegModes == {"1", "L", "RGB", "RGBX", "CMYK", "YCbCr"}

\* transformed_image.save(buffered, format="JPEG") and the base64 encoding of
\* the bytes written.
save_jpeg(im) ==
    IF im.mode \in JpegModes
    THEN [exc |-> NoExc, out |-> IF im.mode = "L" THEN "base64 jpeg gray"
                                 ELSE "base64 jpeg colour"]
    ELSE [exc |-> Exc("OSError", "cannot write mode as JPEG"), out |-> ""]

-----------------------------------------------------------------------------
(* The request pipeline.  pc[r] is the step request r executes next:        *)
(* Off (no request in the slot), Received, Validation, Decoding,            *)
(* ImageParsing, Transforming, Encoding, Responded (the handler has         *)
(* returned or raised), Done (the middleware has returned the response).    *)
(* trace[r] lists the stages request r has executed.                        *)

Entry(r, text, code) == [r |-> r, text |-> text, status |-> code]

\* The handler leaves its try block with exception e: the except chain picks
\* the response and logs it.
Raise(r, stage, e) ==
    /\ response' = [response EXCEPT ![r] = Handle(e)]
    /\ pc' = [pc EXCEPT ![r] = "Responded"]
    /\ trace' = [trace EXCEPT ![r] = Append(@, stage)]
    /\ log' = log \cup {Entry(r, Handle(e).message, Handle(e).status)}

\* log_requests up to `await call_next(request)`
MwBegin(r) ==
    /\ pc[r] = "Received"
    /\ pc' = [pc EXCEPT ![r] = "Validation"]
    /\ log' = log \cup {Entry(r, "Incoming request", 0), Entry(r, "Request body", 0)}
    /\ UNCHANGED <<req, trace, image_data, image, transformed_image, response>>

\* The validate_input dependency: a rejection ends the request before the
\* handler body is entered.
Validate(r) ==
    /\ pc[r] = "Validation"
    /\ trace' = [trace EXCEPT ![r] = Append(@, "Validation")]
    /\ LET rejection == validate_input(req[r])
       IN IF rejection # NoResponse
          THEN /\ response' = [response EXCEPT ![r] = rejection]
               /\ pc' = [pc EXCEPT ![r] = "Responded"]
               /\ log' = log \cup {Entry(r, rejection.message, 422)}
          ELSE /\ pc' = [pc EXCEPT ![r] = "Decoding"]
               /\ UNCHANGED <<response, log>>
    /\ UNCHANGED <<req, image_data, image, transformed_image>>

\* image_data = base64.b64decode(request_data["image"])
Decode(r) ==
    /\ pc[r] = "Decoding"
    /\ LET d == b64decode(req[r].image)
       IN IF d.exc # NoExc
          THEN /\ Raise(r, "Decoding", d.exc)
               /\ UNCHANGED image_data
          ELSE /\ image_data' = [image_data EXCEPT ![r] = d.bytes]
               /\ pc' = [pc EXCEPT ![r] = "ImageParsing"]
               /\ trace' = [trace EXCEPT ![r] = Append(@, "Decoding")]
               /\ log' = log \cup {Entry(r, "Transformation requested", 0),
                                   Entry(r, "Base64 image decoded successfully", 0)}
               /\ UNCHANGED response
    /\ UNCHANGED <<req, image, transformed_image>>

\* OpenImage that logs the failure of Image.open and carries on.
OpenImage_carry_on(r) ==
    /\ pc[r] = "ImageParsing"
    /\ image' = [image EXCEPT ![r] = Image_open(image_data[r]).img]
    /\ pc' = [pc EXCEPT ![r] = "Transforming"]
    /\ trace' = [trace EXCEPT ![r] = Append(@, "ImageParsing")]
    /\ log' = log \cup {Entry(r, "Image opened", 0)}
    /\ UNCHANGED <<req, image_data, transformed_image, response>>

\* The inner try of the handler: Image.open, and on any Exception an
\* HTTPException(400, "Invalid image file") raised inside the outer try.
OpenImage(r) ==
    /\ pc[r] = "ImageParsing"
    /\ LET o == Image_open(image_data[r])
       IN IF o.exc # NoExc
          THEN /\ IF IsInstance(o.exc, "Exception")
                  THEN Raise(r, "ImageParsing",
                             Exc("HTTPException", "400: Invalid image file"))
                  ELSE Raise(r, "ImageParsing", o.exc)
               /\ UNCHANGED image
          ELSE /\ image' = [image EXCEPT ![r] = o.img]
               /\ pc' = [pc EXCEPT ![r] = "Transforming"]
               /\ trace' = [trace EXCEPT ![r] = Append(@, "ImageParsing")]
               /\ log' = log \cup {Entry(r, "Image opened successfully", 0)}
               /\ UNCHANGED response
    /\ UNCHANGED <<req, image_data, transformed_image>>

\* Transform working on an image held by the process rather than by the
\* request: any image some request has opened.
Transform_shared_image(r) ==
    /\ pc[r] = "Transforming"
    /\ \E q \in Reqs :
        /\ image[q] # NoImage
        /\ LET p == process_image(image[q], req[r].transformation_type,
                                  GetOrZero(req[r], "rotation_angle"),
                                  GetOrZero(req[r], "width"),
                                  GetOrZero(req[r], "height"))
           IN IF p.exc # NoExc
              THEN /\ Raise(r, "Transforming", p.exc)
                   /\ UNCHANGED transformed_image
              ELSE /\ transformed_image' = [transformed_image EXCEPT ![r] = p.img]
                   /\ pc' = [pc EXCEPT ![r] = "Encoding"]
                   /\ trace' = [trace EXCEPT ![r] = Append(@, "Transforming")]
                   /\ log' = log \cup {Entry(r, "Image transformation completed", 0)}
                   /\ UNCHANGED response
    /\ UNCHANGED <<req, image_data, image>>

\* transformed_image = process_image(image, ...)
Transform(r) ==
    /\ pc[r] = "Transforming"
    /\ LET p == process_image(image[r], req[r].transformation_type,
                              GetOrZero(req[r], "rotation_angle"),
                              GetOrZero(req[r], "width"),
                              GetOrZero(req[r], "height"))
       IN IF p.exc # NoExc
          THEN /\ Raise(r, "Transforming", p.exc)
               /\ UNCHANGED transformed_image
          ELSE /\ transformed_image' = [transformed_image EXCEPT ![r] = p.img]
               /\ pc' = [pc EXCEPT ![r] = "Encoding"]
               /\ trace' = [trace EXCEPT ![r] = Append(@, "Transforming")]
               /\ log' = log \cup {Entry(r, "Image transformation completed", 0)}
               /\ UNCHANGED response
    /\ UNCHANGED <<req, image_data, image>>

\* Save as JPEG, base64-encode, build the TransformResponse and return it.
Encode(r) ==
    /\ pc[r] = "Encoding"
    /\ LET e == save_jpeg(transformed_image[r])
       IN IF e.exc # NoExc
          THEN Raise(r, "Encoding", e.exc)
          ELSE /\ response' = [response EXCEPT ![r] = Success(e.out)]
               /\ pc' = [pc EXCEPT ![r] = "Responded"]
               /\ trace' = [trace EXCEPT ![r] = @ \o <<"Encoding", "Done">>]
               /\ log' = log \cup {Entry(r, "Returning transformed image to user", 0)}
    /\ UNCHANGED <<req, image_data, image, transformed_image>>

\* log_requests after call_next: the outcome is logged and the response
\* returned to the client.
MwEnd(r) ==
    /\ pc[r] = "Responded"
    /\ pc' = [pc EXCEPT ![r] = "Done"]
    /\ log' = log \cup {Entry(r, IF response[r].status = 200
                                 THEN "Operation was successful."
                                 ELSE "Operation failed with status code",
                              response[r].status)}
    /\ UNCHANGED <<req, trace, image_data, image, transformed_image, response>>

Fresh ==
    /\ trace = [r \in Reqs |-> <<>>]
    /\ image_data = [r \in Reqs |-> Unset]
    /\ image = [r \in Reqs |-> NoImage]
    /\ transformed_image = [r \in Reqs |-> NoImage]
    /\ response = [r \in Reqs |-> NoResponse]
    /\ log = {}

\* One request, any body, in slot 1.
Init ==
    /\ \E d \in AllRequests : req = [r \in Reqs |-> IF r = 1 THEN d ELSE NoRequest]
    /\ pc = [r \in Reqs |-> IF r = 1 THEN "Received" ELSE "Off"]
    /\ Fresh

\* A request in every slot.
InitConc ==
    /\ req \in [Reqs -> ConcRequests]
    /\ pc = [r \in Reqs |-> "Received"]
    /\ Fresh

Next ==
    \E r \in Reqs :
        \/ MwBegin(r)
        \/ Validate(r)
        \/ Decode(r)
        \/ OpenImage(r)
        \/ Transform(r)
        \/ Encode(r)
        \/ MwEnd(r)

Spec == Init /\ [][Next]_vars

\* The server runs every request it has received to completion.
FairSpec == Init /\ [][Next]_vars /\ WF_vars(Next)

SpecConc == InitConc /\ [][Next]_vars

-----------------------------------------------------------------------------
(* A request processed alone: the response transform_image and its          *)
(* dependency give for the request mapping d.                               *)

Serve(d) ==
    IF validate_input(d) # NoResponse THEN validate_input(d)
    ELSE LET dec == b64decode(d.image)
         IN IF dec.exc # NoExc THEN Handle(dec.exc)
            ELSE LET o == Image_open(dec.bytes)
                 IN IF o.exc # NoExc
                    THEN Handle(Exc("HTTPException", "400: Invalid image file"))
                    ELSE LET p == process_image(o.img, d.transformation_type,
                                                GetOrZero(d, "rotation_angle"),
                                                GetOrZero(d, "width"),
                                                GetOrZero(d, "height"))
                         IN IF p.exc # NoExc THEN Handle(p.exc)
                            ELSE LET e == save_jpeg(p.img)
                                 IN IF e.exc # NoExc THEN Handle(e.exc)
                                    ELSE Success(e.out)

-----------------------------------------------------------------------------
(* Vocabulary of the properties, stated on the request mapping itself.      *)

Range(q) == {q[i] : i \in DOMAIN q}

IsPrefix(p, q) == Len(p) <= Len(q) /\ SubSeq(q, 1, Len(p)) = p

StageOrder ==
    <<"Validation", "Decoding", "ImageParsing", "Transforming", "Encoding", "Done">>

Answered(r) == pc[r] \in {"Responded", "Done"}

KeyAbsent(d, field) == d[field].t = "absent"

KeyNone(d, field) == d[field].t \in {"absent", "null"}

BothKeys(d) == ~KeyAbsent(d, "image") /\ ~KeyAbsent(d, "transformation_type")

ResizeLacksDim(d) ==
    d.transformation_type = Str("resize") /\ (KeyNone(d, "width") \/ KeyNone(d, "height"))

RotateLacksAngle(d) ==
    d.transformation_type = Str("rotate") /\ KeyNone(d, "rotation_angle")

PassesValidation(d) == BothKeys(d) /\ ~ResizeLacksDim(d) /\ ~RotateLacksAngle(d)

Parses(d) == d.image \in {Str("RGB"), Str("RGBA"), Str("P"), Str("L"), Str("TRUNCATED")}

NotAnImage(d) == d.image \in {Str("TEXT"), Str("EMPTY"), Str("UNKNOWN_FORMAT")}

KnownType(d) ==
    d.transformation_type \in {Str("grayscale"), Str("rotate"), Str("resize")}

\* resize with an integer width <= 0, or a positive integer width and an
\* integer height <= 0
ResizeNonPositive(d) ==
    /\ d.transformation_type = Str("resize")
    /\ d.width.t = "int"
    /\ (d.width.n <= 0 \/ (d.height.t = "int" /\ d.height.n <= 0))

BadParameter(d) == ~KnownType(d) \/ ResizeNonPositive(d)

ParameterMessages ==
    {"Invalid transformation type",
     "Width and height must be positive integers for resizing."}

\* The stage at which an answered request failed.
FailedAt(r) == trace[r][Len(trace[r])]

-----------------------------------------------------------------------------
\* C1: a request mapping without the key image or without the key
\* transformation_type is answered 422, the message lists exactly the absent
\* keys of the two, the correct_format shows all five fields, and nothing of
\* the request is decoded, opened or transformed.
C1_MissingRejected ==
    \A r \in Reqs :
        (pc[r] # "Off" /\ ~BothKeys(req[r])) =>
            /\ image_data[r] = Unset
            /\ image[r] = NoImage
            /\ transformed_image[r] = NoImage
            /\ IsPrefix(trace[r], <<"Validation">>)
            /\ Answered(r) =>
                /\ response[r].status = 422
                /\ response[r].message = "Missing required fields"
                /\ Range(response[r].missing) =
                      {f \in {"image", "transformation_type"} : KeyAbsent(req[r], f)}
                /\ Len(response[r].missing) = Cardinality(Range(response[r].missing))
                /\ response[r].correct_format = Fields

C1_Witness ==
    \E r \in Reqs :
        /\ pc[r] = "Done"
        /\ KeyAbsent(req[r], "transformation_type")
        /\ ~KeyAbsent(req[r], "image")
        /\ response[r].missing = <<"transformation_type">>

\* C2: with both required keys present, validation rejects (422) exactly when
\* the type is resize and width or height is absent or null, or the type is
\* rotate and rotation_angle is absent or null; the rejection shows the
\* resize format in the first case and the rotate format in the second.  An
\* unknown type and a width or height <= 0 pass validation.
C2_ConditionalRejected ==
    \A r \in Reqs :
        (BothKeys(req[r]) /\ trace[r] # <<>>) =>
            /\ (response[r].status = 422) <=>
                   (ResizeLacksDim(req[r]) \/ RotateLacksAngle(req[r]))
            /\ ResizeLacksDim(req[r]) =>
                /\ response[r].correct_format =
                      {"image", "transformation_type", "width", "height"}
                /\ response[r].message =
                      "Width and height must be provided for resize transformation."
            /\ RotateLacksAngle(req[r]) =>
                /\ response[r].correct_format =
                      {"image", "transformation_type", "rotation_angle"}
                /\ response[r].message =
                      "Rotation angle must be provided for rotate transformation."
            /\ (response[r].status = 422) => trace[r] = <<"Validation">>
            /\ (response[r].status # 422) => pc[r] # "Validation"

C2_Witness ==
    \E r \in Reqs :
        /\ pc[r] = "Done"
        /\ req[r].transformation_type = Str("resize")
        /\ req[r].width = Num(5)
        /\ req[r].height = Null
        /\ req[r].image = Str("RGB")
        /\ response[r].status = 422

C4_Claim ==
    \A r \in Reqs :
        (Answered(r) /\ PassesValidation(req[r])
            /\ req[r].image \in {Str("TEXT"), Str("EMPTY")}) =>
            /\ response[r].status = 400
            /\ response[r].message = "Invalid image file"

C6_Claim ==
    \A r \in Reqs :
        (Answered(r) /\ transformed_image[r] # NoImage) =>
            /\ response[r].status = 200
            /\ response[r].body \in {"base64 jpeg gray", "base64 jpeg colour"}

\* C7: a validated request whose decoded bytes are in an unrecognised image
\* format is answered 400 "Invalid image provided".
C7_Claim ==
    \A r \in Reqs :
        (Answered(r) /\ PassesValidation(req[r])
            /\ req[r].image = Str("UNKNOWN_FORMAT")) =>
            /\ response[r].status = 400
            /\ response[r].message = "Invalid image provided"

\* No request at all is answered "Invalid image provided".
NeverInvalidImageProvided ==
    \A r \in Reqs : response[r].message # "Invalid image provided"

-----------------------------------------------------------------------------
(* Stage order *)

C8_Order ==
    \A r \in Reqs :
        /\ IsPrefix(trace[r], StageOrder)
        /\ (response[r] # NoResponse) => Answered(r)
        /\ (response[r] # NoResponse /\ response[r].status # 200) =>
            /\ trace[r] # <<>>
            /\ FailedAt(r) # "Done"
            /\ FailedAt(r) \in {"Validation", "Decoding"} => image_data[r] = Unset
            /\ FailedAt(r) \in {"Validation", "Decoding", "ImageParsing"} =>
                  image[r] = NoImage
            /\ FailedAt(r) \in {"Validation", "Decoding", "ImageParsing", "Transforming"} =>
                  transformed_image[r] = NoImage
        /\ (Answered(r) /\ ~PassesValidation(req[r])) =>
              (trace[r] = <<"Validation">> /\ image_data[r] = Unset)
        /\ (Answered(r) /\ PassesValidation(req[r]) /\ NotAnImage(req[r])
              /\ BadParameter(req[r])) =>
            /\ FailedAt(r) = "ImageParsing"
            /\ response[r].about = "400: Invalid image file"
            /\ response[r].message # "Invalid transformation type or parameter"

C8_NothingAfterAnswer ==
    \A r \in Reqs :
        Answered(r) =>
            /\ trace'[r] = trace[r]
            /\ response'[r] = response[r]
            /\ image_data'[r] = image_data[r]
            /\ image'[r] = image[r]
            /\ transformed_image'[r] = transformed_image[r]

-----------------------------------------------------------------------------
(* Outcomes *)

Failed(r) == Answered(r) /\ response[r].status # 200

\* A failure that is no validation, bad-image or parameter error.
OtherFailure(r) ==
    /\ Failed(r)
    /\ FailedAt(r) # "Validation"
    /\ FailedAt(r) # "ImageParsing"
    /\ ~(FailedAt(r) = "Transforming" /\ BadParameter(req[r]))

Classified(r) ==
    /\ response[r].status \in {200, 422, 400, 500}
    /\ (response[r].status = 200) =>
          (trace[r] = StageOrder /\ response[r].body # "")
    /\ (response[r].status # 200) => (response[r].message # "" /\ response[r].body = "")

C9_Outcome ==
    \A r \in Reqs :
        Answered(r) =>
            /\ Classified(r)
            /\ OtherFailure(r) =>
                IF FailedAt(r) = "Decoding" /\ req[r].image.t = "str"
                THEN /\ response[r].status = 400
                     /\ response[r].message = "Invalid transformation type or parameter"
                ELSE /\ response[r].status = 500
                     /\ response[r].message = "Internal server error"

C9_OneOutcome ==
    \A r \in Reqs : (response[r] # NoResponse) => response'[r] = response[r]

AllServed == \A r \in Reqs : pc[r] \in {"Off", "Done"}

-----------------------------------------------------------------------------
(* Concurrent requests *)

\* C10: whatever the interleaving, a request's response is the response it
\* gets when processed alone, and the bytes and the image a request holds
\* come from its own body.
C10_Isolation ==
    \A r \in Reqs :
        /\ (response[r] # NoResponse) => response[r] = Serve(req[r])
        /\ (image_data[r] # Unset) => image_data[r] = b64decode(req[r].image).bytes
        /\ (image[r] # NoImage) => image[r] = Image_open(image_data[r]).img
        /\ \A entry \in log : entry.r \in Reqs

C10_Witness ==
    \E r, q \in Reqs :
        /\ r # q
        /\ pc[r] = "Done"
        /\ response[r].status = 500
        /\ image_data[r] = "png rgba"
        /\ pc[q] = "Transforming"
        /\ image_data[q] = "png rgb"

====
